---- MODULE Spec2Model ----
(***************************************************************************)
(* Delhi Trip accounts app: the client (src/src/App.tsx) and the server    *)
(* (src/server.ts).                                                         *)
(*                                                                         *)
(* The client keeps the 8 fixed finance figures, the expense, income and   *)
(* place lists and the edit toggles as React state and derives the trip    *)
(* and savings figures from them on every render.  The first version of    *)
(* App.tsx (lines 104-420) is a local-only app; the second version (lines  *)
(* 1107-2300) loads and stores the same state through the server's         *)
(* /api routes.                                                            *)
(*                                                                         *)
(* Entries carry id, title, amount, category and accountId.  The date and  *)
(* time fields of the source are display strings formatted from the same   *)
(* clock reading as the id and are left out.                               *)
(***************************************************************************)
EXTENDS Integers, Sequences, FiniteSets

----------------------------------------------------------------------------
(* Bounds of the model *)

\* the user types -1 or MaxParam into a fixed-finance input
MaxParam == 2
\* the user types -1 or MaxAmount as the amount of an expense or income
MaxAmount == 2
\* expenses plus incomes held by the local-only app
MaxCalcEntries == 2
\* the last clock reading (milliseconds) of a run
MaxClock == 1

\* accounts that can be registered
MaxUsers == 2
\* requests in flight at once
MaxInflight == 2
\* values typed into fixed-finance inputs in a run of the client-server app
MaxEdits == 1
\* expense, income and place forms submitted in a run of the client-server app
MaxEntries == 2
\* requests sent to the server by other callers than the app in a run
MaxCalls == 3

ParamVals == {-1, MaxParam}
AmountVals == {-1, MaxAmount}

----------------------------------------------------------------------------
(* Program constants *)

\* "28th to 30th = 3 days"
TripDays == 3

AccountType == {"trip", "savings"}

Fields == {"totalBudget", "platinumTicket", "pendingPlatinum", "flightTotal",
           "myFlightShare", "stay", "expectedIncoming", "baseSavings"}

\* the fields shown under the "Delhi Trip Finances" edit toggle
TripFields == Fields \ {"baseSavings"}

\* no token: useState<string | null>, sent as "Bearer null"
Null == 0

Usernames == 1..MaxUsers

----------------------------------------------------------------------------
VARIABLES
  \* server (better-sqlite3 tables)
  users, finances, dbExpenses, dbIncomes, dbPlaces,
  \* browser
  localToken, clock,
  \* client React state
  appState, token,
  totalBudget, platinumTicket, pendingPlatinum, flightTotal, myFlightShare,
  stay, expectedIncoming, baseSavings,
  expenses, incomes, places,
  isEditingTrip, isEditingSavings,
  \* the splash timer of useEffect([token]) and the fetches under way
  timer, net,
  \* number of values typed into fixed-finance inputs so far, and of entry
  \* forms submitted so far
  typed, submitted,
  \* PlannerTab useState: the three allocation sliders, in percent
  foodPct, alcoholPct, transportPct

serverVars == <<users, finances, dbExpenses, dbIncomes, dbPlaces>>
fixedVars == <<totalBudget, platinumTicket, pendingPlatinum, flightTotal,
               myFlightShare, stay, expectedIncoming, baseSavings>>
ledgerVars == <<expenses, incomes, places>>
editVars == <<isEditingTrip, isEditingSavings>>
sessionVars == <<localToken, appState, token>>

asyncVars == <<timer, net>>
inputVars == <<typed, submitted>>
plannerVars == <<foodPct, alcoholPct, transportPct>>
clientVars == <<sessionVars, clock, fixedVars, ledgerVars, editVars, timer,
                inputVars>>

vars == <<serverVars, sessionVars, clock, fixedVars, ledgerVars, editVars,
          asyncVars, inputVars, plannerVars>>

\* PlannerTab as it mounts: useState(40), useState(20), useState(20)
PlannerMount == foodPct = 40 /\ alcoholPct = 20 /\ transportPct = 20

\* a step outside the planner tab
PlannerIdle == UNCHANGED plannerVars

----------------------------------------------------------------------------
(* Numbers.  Amounts are integers; tripRemainingBalance / 3 is a JavaScript *)
(* number division, modelled as an exact fraction in lowest terms.          *)

Abs(n) == IF n < 0 THEN -n ELSE n

RECURSIVE GCD(_, _)
GCD(a, b) == IF b = 0 THEN a ELSE GCD(b, a % b)

\* a / b for b > 0
Divide(a, b) ==
  LET g == GCD(Abs(a), b)
  IN  [num |-> a \div g, den |-> b \div g]

Num(n) == [num |-> n, den |-> 1]

RatLess(x, y) == x.num * y.den < y.num * x.den

\* Math.max(x, y)
MathMax(x, y) == IF RatLess(x, y) THEN y ELSE x

\* Number.prototype.toString: the decimal digits of n >= 0
RECURSIVE toString(_)
toString(n) == IF n < 10 THEN <<n>> ELSE Append(toString(n \div 10), n % 10)

----------------------------------------------------------------------------
(* Calculations (App.tsx 1259-1287, and 130-158 in the first version) *)

\* the 8 useState values of the current render
fixed ==
  [totalBudget |-> totalBudget, platinumTicket |-> platinumTicket,
   pendingPlatinum |-> pendingPlatinum, flightTotal |-> flightTotal,
   myFlightShare |-> myFlightShare, stay |-> stay,
   expectedIncoming |-> expectedIncoming, baseSavings |-> baseSavings]

\* slip: the account filter is dropped
tripExpenses_noFilter(exps) == exps

tripExpenses(exps) == SelectSeq(exps, LAMBDA e : e.accountId = "trip")
savingsExpenses(exps) == SelectSeq(exps, LAMBDA e : e.accountId = "savings")
tripIncomes(incs) == SelectSeq(incs, LAMBDA i : i.accountId = "trip")
\* slip: the filter of tripIncomes copied without changing the account
savingsIncomes_wrongAccount(incs) ==
  SelectSeq(incs, LAMBDA i : i.accountId = "trip")

savingsIncomes(incs) == SelectSeq(incs, LAMBDA i : i.accountId = "savings")

\* slip: list.reduce((sum, e) => e.amount, acc), the sum is overwritten
reduceAmount_overwrite(list, acc) ==
  IF list = <<>> THEN acc ELSE list[Len(list)].amount

\* list.reduce((sum, e) => sum + e.amount, acc)
RECURSIVE reduceAmount(_, _)
reduceAmount(list, acc) ==
  IF list = <<>> THEN acc
  ELSE reduceAmount(Tail(list), acc + Head(list).amount)

tripDynamicSpent(exps) == reduceAmount(tripExpenses(exps), 0)
savingsDynamicSpent(exps) == reduceAmount(savingsExpenses(exps), 0)
tripDynamicIncome(incs) == reduceAmount(tripIncomes(incs), 0)
savingsDynamicIncome(incs) == reduceAmount(savingsIncomes(incs), 0)

\* slip: the whole flight is counted, not the user's share of it
tripEffectiveSpent_flightTotal(f, exps) ==
  f.platinumTicket - f.pendingPlatinum + f.flightTotal + f.stay
    + tripDynamicSpent(exps)

\* slip: the ticket is counted in full, not net of the pending part
tripEffectiveSpent_grossTicket(f, exps) ==
  f.platinumTicket + f.myFlightShare + f.stay + tripDynamicSpent(exps)

tripEffectiveSpent(f, exps) ==
  f.platinumTicket - f.pendingPlatinum + f.myFlightShare + f.stay
    + tripDynamicSpent(exps)

tripTotalIncoming(f, incs) == f.expectedIncoming + tripDynamicIncome(incs)

\* slip: the pending amount is added instead of subtracted
tripRemainingBalance_addPending(f, exps, incs) ==
  f.totalBudget - tripEffectiveSpent(f, exps) + f.pendingPlatinum
    + tripTotalIncoming(f, incs)

\* slip: the pending amount is not subtracted from the balance
tripRemainingBalance_noPending(f, exps, incs) ==
  f.totalBudget - tripEffectiveSpent(f, exps) + tripTotalIncoming(f, incs)

tripRemainingBalance(f, exps, incs) ==
  f.totalBudget - tripEffectiveSpent(f, exps) - f.pendingPlatinum
    + tripTotalIncoming(f, incs)

\* slip: integer division, Math.floor(balance / 3)
safeDailySpend_truncated(f, exps, incs) ==
  MathMax(Num(0), Num(tripRemainingBalance(f, exps, incs) \div TripDays))

\* slip: no floor at zero
safeDailySpend_noFloor(f, exps, incs) ==
  Divide(tripRemainingBalance(f, exps, incs), TripDays)

safeDailySpend(f, exps, incs) ==
  MathMax(Num(0), Divide(tripRemainingBalance(f, exps, incs), TripDays))

totalSavingsBalance(f, exps, incs) ==
  f.baseSavings + savingsDynamicIncome(incs) - savingsDynamicSpent(exps)

\* the derived figures of one render
Calculations(f, exps, incs) ==
  [tripEffectiveSpent |-> tripEffectiveSpent(f, exps),
   tripTotalIncoming |-> tripTotalIncoming(f, incs),
   tripRemainingBalance |-> tripRemainingBalance(f, exps, incs),
   safeDailySpend |-> safeDailySpend(f, exps, incs),
   totalSavingsBalance |-> totalSavingsBalance(f, exps, incs)]

\* what the dashboard shows in the current state
Shown == Calculations(fixed, expenses, incomes)

----------------------------------------------------------------------------
(* Entries built by the forms *)

\* the form's default category (ExpensesTab / ExploreTab useState)
NewExpense(now, amount, account) ==
  [id |-> toString(now), title |-> "chai", amount |-> amount,
   category |-> "Food", accountId |-> account]

NewIncome(now, amount, account) ==
  [id |-> toString(now), title |-> "refund", amount |-> amount,
   category |-> "Friend reimbursement", accountId |-> account]

NewPlace(now) ==
  [id |-> toString(now), title |-> "stall", category |-> "Street Food"]

\* setter(Number(e.target.value)) of the FixedItem of field f
SetFixed(f, v) ==
  /\ totalBudget' = IF f = "totalBudget" THEN v ELSE totalBudget
  /\ platinumTicket' = IF f = "platinumTicket" THEN v ELSE platinumTicket
  /\ pendingPlatinum' = IF f = "pendingPlatinum" THEN v ELSE pendingPlatinum
  /\ flightTotal' = IF f = "flightTotal" THEN v ELSE flightTotal
  /\ myFlightShare' = IF f = "myFlightShare" THEN v ELSE myFlightShare
  /\ stay' = IF f = "stay" THEN v ELSE stay
  /\ expectedIncoming' = IF f = "expectedIncoming" THEN v ELSE expectedIncoming
  /\ baseSavings' = IF f = "baseSavings" THEN v ELSE baseSavings

----------------------------------------------------------------------------
(* The local-only app: first version of App.tsx *)

InitCalc ==
  /\ users = <<>> /\ finances = <<>>
  /\ dbExpenses = <<>> /\ dbIncomes = <<>> /\ dbPlaces = <<>>
  /\ localToken = Null /\ token = Null /\ appState = "main"
  /\ clock = MaxClock
  /\ totalBudget \in ParamVals /\ platinumTicket \in ParamVals
  /\ pendingPlatinum \in ParamVals /\ flightTotal \in ParamVals
  /\ myFlightShare \in ParamVals /\ stay \in ParamVals
  /\ expectedIncoming \in ParamVals /\ baseSavings \in ParamVals
  /\ expenses = <<>> /\ incomes = <<>> /\ places = <<>>
  /\ isEditingTrip = FALSE /\ isEditingSavings = FALSE
  /\ timer = [armed |-> FALSE, tok |-> Null] /\ net = {} /\ typed = 0 /\ submitted = 0
  /\ PlannerMount

ToggleEditTripLocal ==
  /\ isEditingTrip' = ~isEditingTrip
  /\ UNCHANGED <<serverVars, sessionVars, clock, fixedVars, ledgerVars,
                 isEditingSavings, asyncVars, inputVars>>

ToggleEditSavingsLocal ==
  /\ isEditingSavings' = ~isEditingSavings
  /\ UNCHANGED <<serverVars, sessionVars, clock, fixedVars, ledgerVars,
                 isEditingTrip, asyncVars, inputVars>>

FixedItemChangeLocal(f, v) ==
  /\ IF f \in TripFields THEN isEditingTrip ELSE isEditingSavings
  /\ SetFixed(f, v)
  /\ UNCHANGED <<serverVars, sessionVars, clock, ledgerVars, editVars,
                 asyncVars, inputVars>>

handleAddExpenseLocal(now, amount, account) ==
  /\ Len(expenses) + Len(incomes) < MaxCalcEntries
  /\ clock' = now
  /\ expenses' = <<NewExpense(now, amount, account)>> \o expenses
  /\ UNCHANGED <<serverVars, sessionVars, fixedVars, incomes, places, editVars,
                 asyncVars, inputVars>>

handleAddIncomeLocal(now, amount, account) ==
  /\ Len(expenses) + Len(incomes) < MaxCalcEntries
  /\ clock' = now
  /\ incomes' = <<NewIncome(now, amount, account)>> \o incomes
  /\ UNCHANGED <<serverVars, sessionVars, fixedVars, expenses, places, editVars,
                 asyncVars, inputVars>>

NextCalc ==
  \/ ToggleEditTripLocal /\ PlannerIdle
  \/ ToggleEditSavingsLocal /\ PlannerIdle
  \/ \E f \in Fields, v \in ParamVals : FixedItemChangeLocal(f, v)
       /\ PlannerIdle
  \/ \E now \in clock..MaxClock, a \in AmountVals, acc \in AccountType :
       handleAddExpenseLocal(now, a, acc) /\ PlannerIdle
  \/ \E now \in clock..MaxClock, a \in AmountVals, acc \in AccountType :
       handleAddIncomeLocal(now, a, acc) /\ PlannerIdle

SpecCalc == InitCalc /\ [][NextCalc]_vars

----------------------------------------------------------------------------
(* The server: src/server.ts *)

\* slip: the columns are declared INTEGER DEFAULT 1
ZeroFinances_defaultOne == [f \in Fields |-> 1]

\* "INSERT INTO finances (user_id) VALUES (?)": every column DEFAULT 0
ZeroFinances ==
  [totalBudget |-> 0, platinumTicket |-> 0, pendingPlatinum |-> 0,
   flightTotal |-> 0, myFlightShare |-> 0, stay |-> 0,
   expectedIncoming |-> 0, baseSavings |-> 0]

\* jwt.verify: the tokens in circulation are those jwt.sign issued, a token
\* being modelled by the userId it carries; "Bearer null" does not verify
authenticate(tok) == tok # Null

\* TEXT comparison of two ids (memcmp, a proper prefix sorts first)
RECURSIVE TextLess(_, _)
TextLess(a, b) ==
  IF a = <<>> THEN b # <<>>
  ELSE IF b = <<>> THEN FALSE
  ELSE IF Head(a) # Head(b) THEN Head(a) < Head(b)
  ELSE TextLess(Tail(a), Tail(b))

\* ORDER BY id DESC
RECURSIVE OrderByIdDesc(_)
OrderByIdDesc(rows) ==
  IF rows = <<>> THEN <<>>
  ELSE LET m == CHOOSE i \in DOMAIN rows :
                  \A j \in DOMAIN rows : ~TextLess(rows[i].id, rows[j].id)
       IN  <<rows[m]>>
             \o OrderByIdDesc(SubSeq(rows, 1, m - 1)
                                \o SubSeq(rows, m + 1, Len(rows)))

\* slip: the WHERE user_id = ? clause is left out
SelectRows_allOwners(table, userId) == OrderByIdDesc(table)

\* slip: ... ORDER BY id DESC LIMIT 1
SelectRows_latestOnly(table, userId) ==
  LET rows == OrderByIdDesc(SelectSeq(table, LAMBDA r : r.user_id = userId))
  IN  IF rows = <<>> THEN <<>> ELSE <<rows[1]>>

\* SELECT * FROM table WHERE user_id = ? ORDER BY id DESC
SelectRows(table, userId) ==
  OrderByIdDesc(SelectSeq(table, LAMBDA r : r.user_id = userId))

\* id TEXT PRIMARY KEY
HasId(table, id) == \E i \in DOMAIN table : table[i].id = id

\* the row an INSERT writes for the body of a request
Row(body, userId) ==
  [k \in DOMAIN body \cup {"user_id"} |->
     IF k = "user_id" THEN userId ELSE body[k]]

UserIdOf(username) == CHOOSE i \in DOMAIN users : users[i].username = username

Replied(r, status, payload) ==
  [r EXCEPT !.phase = "replied", !.status = status, !.reply = payload]

\* POST /api/auth/register
Register(r) ==
  LET b == r.body[1] IN
  /\ r.phase = "sent"
  /\ UNCHANGED clientVars
  /\ r.kind = "register"
  /\ IF \E i \in DOMAIN users : users[i].username = b.username
     THEN /\ net' = (net \ {r}) \cup {Replied(r, 400, <<>>)}
          /\ UNCHANGED <<users, finances>>
     ELSE /\ users' = Append(users, b)
          /\ finances' = Append(finances, ZeroFinances)
          /\ net' = (net \ {r})
                      \cup {Replied(r, 200, <<[token |-> Len(users) + 1]>>)}
  /\ UNCHANGED <<dbExpenses, dbIncomes, dbPlaces>>

\* POST /api/auth/login
Login(r) ==
  LET b == r.body[1] IN
  /\ r.phase = "sent"
  /\ UNCHANGED clientVars
  /\ r.kind = "login"
  /\ IF \E i \in DOMAIN users : users[i] = b
     THEN net' = (net \ {r})
                   \cup {Replied(r, 200, <<[token |-> UserIdOf(b.username)]>>)}
     ELSE net' = (net \ {r}) \cup {Replied(r, 401, <<>>)}
  /\ UNCHANGED serverVars

\* GET /api/data
GetData(r) ==
  /\ r.phase = "sent"
  /\ UNCHANGED clientVars
  /\ r.kind = "data"
  /\ IF ~authenticate(r.tok)
     THEN net' = (net \ {r}) \cup {Replied(r, 401, <<>>)}
     ELSE net' = (net \ {r}) \cup
            {Replied(r, 200,
               <<[finances |-> finances[r.tok],
                  expenses |-> SelectRows(dbExpenses, r.tok),
                  incomes |-> SelectRows(dbIncomes, r.tok),
                  places |-> SelectRows(dbPlaces, r.tok)]>>)}
  /\ UNCHANGED serverVars

\* slip: UPDATE finances SET totalBudget = ? WHERE user_id = ?
PostFinances_oneField(r) ==
  /\ r.phase = "sent"
  /\ UNCHANGED clientVars
  /\ r.kind = "finances"
  /\ IF authenticate(r.tok)
     THEN /\ finances' = [finances EXCEPT
                            ![r.tok].totalBudget = r.body[1].totalBudget]
          /\ net' = (net \ {r}) \cup {Replied(r, 200, <<>>)}
     ELSE /\ UNCHANGED finances
          /\ net' = (net \ {r}) \cup {Replied(r, 401, <<>>)}
  /\ UNCHANGED <<users, dbExpenses, dbIncomes, dbPlaces>>

\* POST /api/finances
PostFinances(r) ==
  /\ r.phase = "sent"
  /\ UNCHANGED clientVars
  /\ r.kind = "finances"
  /\ IF authenticate(r.tok)
     THEN /\ finances' = [finances EXCEPT ![r.tok] = r.body[1]]
          /\ net' = (net \ {r}) \cup {Replied(r, 200, <<>>)}
     ELSE /\ UNCHANGED finances
          /\ net' = (net \ {r}) \cup {Replied(r, 401, <<>>)}
  /\ UNCHANGED <<users, dbExpenses, dbIncomes, dbPlaces>>

\* slip: the route is registered without the authenticate middleware
InsertStatus_noAuth(table, r) ==
  IF HasId(table, r.body[1].id) THEN 500 ELSE 200

\* slip: the tables are created without PRIMARY KEY on id
InsertStatus_noKey(table, r) == IF ~authenticate(r.tok) THEN 401 ELSE 200

\* the table after "INSERT INTO table ..." and the status of the response:
\* 401 from authenticate, 500 when stmt.run throws on the primary key
InsertStatus(table, r) ==
  IF ~authenticate(r.tok) THEN 401
  ELSE IF HasId(table, r.body[1].id) THEN 500
  ELSE 200

\* slip: INSERT OR REPLACE INTO table ...
Insert_orReplace(table, r) ==
  IF ~authenticate(r.tok) THEN table
  ELSE Append(SelectSeq(table, LAMBDA row : row.id # r.body[1].id),
              Row(r.body[1], r.tok))

Insert(table, r) ==
  IF InsertStatus(table, r) = 200
  THEN Append(table, Row(r.body[1], r.tok))
  ELSE table

\* slip: the route also runs "UPDATE finances SET ... = 0 WHERE user_id = ?"
PostExpenses_resetFinances(r) ==
  /\ r.phase = "sent"
  /\ UNCHANGED clientVars
  /\ r.kind = "expenses"
  /\ dbExpenses' = Insert(dbExpenses, r)
  /\ net' = (net \ {r}) \cup {Replied(r, InsertStatus(dbExpenses, r), <<>>)}
  /\ IF authenticate(r.tok)
     THEN finances' = [finances EXCEPT ![r.tok] = ZeroFinances]
     ELSE UNCHANGED finances
  /\ UNCHANGED <<users, dbIncomes, dbPlaces>>

\* POST /api/expenses
PostExpenses(r) ==
  /\ r.phase = "sent"
  /\ UNCHANGED clientVars
  /\ r.kind = "expenses"
  /\ dbExpenses' = Insert(dbExpenses, r)
  /\ net' = (net \ {r}) \cup {Replied(r, InsertStatus(dbExpenses, r), <<>>)}
  /\ UNCHANGED <<users, finances, dbIncomes, dbPlaces>>

\* POST /api/incomes
PostIncomes(r) ==
  /\ r.phase = "sent"
  /\ UNCHANGED clientVars
  /\ r.kind = "incomes"
  /\ dbIncomes' = Insert(dbIncomes, r)
  /\ net' = (net \ {r}) \cup {Replied(r, InsertStatus(dbIncomes, r), <<>>)}
  /\ UNCHANGED <<users, finances, dbExpenses, dbPlaces>>

\* POST /api/places
PostPlaces(r) ==
  /\ r.phase = "sent"
  /\ UNCHANGED clientVars
  /\ r.kind = "places"
  /\ dbPlaces' = Insert(dbPlaces, r)
  /\ net' = (net \ {r}) \cup {Replied(r, InsertStatus(dbPlaces, r), <<>>)}
  /\ UNCHANGED <<users, finances, dbExpenses, dbIncomes>>

----------------------------------------------------------------------------
(* The client: second version of App.tsx *)

Request(kind, tok, body, cap) ==
  [kind |-> kind, phase |-> "sent", tok |-> tok, body |-> body, cap |-> cap,
   status |-> 0, reply |-> <<>>]

CanSend == Cardinality(net) < MaxInflight

\* useEffect(..., [token]): a change of token clears the timer and sets a new
\* one, whose callback holds the new token
TimerAfter(newToken) ==
  IF newToken # token THEN [armed |-> TRUE, tok |-> newToken] ELSE timer

Init ==
  /\ users = <<>> /\ finances = <<>>
  /\ dbExpenses = <<>> /\ dbIncomes = <<>> /\ dbPlaces = <<>>
  /\ localToken = Null /\ token = localToken /\ appState = "splash"
  /\ clock = 0
  /\ totalBudget = 0 /\ platinumTicket = 0 /\ pendingPlatinum = 0
  /\ flightTotal = 0 /\ myFlightShare = 0 /\ stay = 0
  /\ expectedIncoming = 0 /\ baseSavings = 0
  /\ expenses = <<>> /\ incomes = <<>> /\ places = <<>>
  /\ isEditingTrip = FALSE /\ isEditingSavings = FALSE
  /\ timer = [armed |-> TRUE, tok |-> token] /\ net = {} /\ typed = 0 /\ submitted = 0
  /\ PlannerMount

\* the splash timer fires
SplashTimer ==
  /\ timer.armed
  /\ timer' = [timer EXCEPT !.armed = FALSE]
  /\ IF timer.tok # Null
     THEN /\ CanSend
          /\ appState' = "main"
          /\ net' = net \cup {Request("data", timer.tok, <<>>, <<>>)}
     ELSE /\ appState' = "auth"
          /\ UNCHANGED net
  /\ UNCHANGED <<serverVars, localToken, token, clock, fixedVars, ledgerVars,
                 editVars, inputVars>>

\* handleAuth up to its fetch; cap holds the token of the render the handler
\* belongs to, which its later call of fetchData sends
handleAuth(mode, username) ==
  /\ appState = "auth"
  /\ CanSend
  /\ net' = net \cup
       {Request(mode, Null, <<[username |-> username, password |-> "pw"]>>,
                <<token>>)}
  /\ UNCHANGED <<serverVars, sessionVars, clock, fixedVars, ledgerVars,
                 editVars, timer, inputVars>>

\* handleAuth after its fetch
handleAuthDone(r) ==
  /\ r.kind \in {"register", "login"} /\ r.phase = "replied"
  /\ IF r.status # 200
     THEN /\ net' = net \ {r}
          /\ UNCHANGED <<sessionVars, timer>>
     ELSE /\ localToken' = r.reply[1].token
          /\ token' = r.reply[1].token
          /\ appState' = "main"
          /\ timer' = TimerAfter(r.reply[1].token)
          /\ net' = (net \ {r}) \cup {Request("data", r.cap[1], <<>>, <<>>)}
  /\ UNCHANGED <<serverVars, clock, fixedVars, ledgerVars, editVars, inputVars>>

handleLogout ==
  /\ localToken' = Null
  /\ token' = Null
  /\ appState' = "auth"
  /\ timer' = TimerAfter(Null)

\* the log-out button of the header
LogoutClick ==
  /\ appState = "main"
  /\ handleLogout
  /\ UNCHANGED <<serverVars, clock, fixedVars, ledgerVars, editVars, net,
                 inputVars>>

\* fetchData after its fetch
fetchDataDone(r) ==
  /\ r.kind = "data" /\ r.phase = "replied"
  /\ net' = net \ {r}
  /\ IF r.status = 401
     THEN /\ handleLogout
          /\ UNCHANGED <<fixedVars, ledgerVars>>
     ELSE LET data == r.reply[1] IN
          /\ totalBudget' = data.finances.totalBudget
          /\ platinumTicket' = data.finances.platinumTicket
          /\ pendingPlatinum' = data.finances.pendingPlatinum
          /\ flightTotal' = data.finances.flightTotal
          /\ myFlightShare' = data.finances.myFlightShare
          /\ stay' = data.finances.stay
          /\ expectedIncoming' = data.finances.expectedIncoming
          /\ baseSavings' = data.finances.baseSavings
          /\ expenses' = data.expenses
          /\ incomes' = data.incomes
          /\ places' = data.places
          /\ UNCHANGED <<sessionVars, timer>>
  /\ UNCHANGED <<serverVars, clock, editVars, inputVars>>

\* saveFinances, called by useEffect(..., [isEditingTrip, isEditingSavings])
\* in the render that follows a toggle
SaveAfterToggle(editingTrip, editingSavings) ==
  IF appState = "main" /\ ~editingTrip /\ ~editingSavings
  THEN /\ CanSend
       /\ net' = net \cup {Request("finances", token, <<fixed>>, <<>>)}
  ELSE UNCHANGED net

\* saveFinances after its fetch: nothing is done with the response
saveFinancesDone(r) ==
  /\ r.kind = "finances" /\ r.phase = "replied"
  /\ net' = net \ {r}
  /\ UNCHANGED <<serverVars, clientVars>>

ToggleEditTrip ==
  /\ appState = "main"
  /\ isEditingTrip' = ~isEditingTrip
  /\ SaveAfterToggle(~isEditingTrip, isEditingSavings)
  /\ UNCHANGED <<serverVars, sessionVars, clock, fixedVars, ledgerVars,
                 isEditingSavings, timer, inputVars>>

ToggleEditSavings ==
  /\ appState = "main"
  /\ isEditingSavings' = ~isEditingSavings
  /\ SaveAfterToggle(isEditingTrip, ~isEditingSavings)
  /\ UNCHANGED <<serverVars, sessionVars, clock, fixedVars, ledgerVars,
                 isEditingTrip, timer, inputVars>>

FixedItemChange(f, v) ==
  /\ appState = "main"
  /\ IF f \in TripFields THEN isEditingTrip ELSE isEditingSavings
  /\ typed < MaxEdits
  /\ typed' = typed + 1
  /\ SetFixed(f, v)
  /\ UNCHANGED <<serverVars, sessionVars, clock, ledgerVars, editVars,
                 asyncVars, submitted>>

CanAppend ==
  /\ appState = "main"
  /\ CanSend
  /\ submitted < MaxEntries

\* handleAddExpense up to its fetch; cap holds the expenses of the render the
\* handler belongs to
handleAddExpense(now, amount, account) ==
  /\ CanAppend
  /\ submitted' = submitted + 1
  /\ clock' = now
  /\ net' = net \cup
       {Request("expenses", token, <<NewExpense(now, amount, account)>>,
                expenses)}
  /\ UNCHANGED <<serverVars, sessionVars, fixedVars, ledgerVars, editVars,
                 timer, typed>>

\* handleAddExpense after its fetch, whatever the status of the response
handleAddExpenseDone(r) ==
  /\ r.kind = "expenses" /\ r.phase = "replied"
  /\ net' = net \ {r}
  /\ expenses' = <<r.body[1]>> \o r.cap
  /\ UNCHANGED <<serverVars, sessionVars, clock, fixedVars, incomes, places,
                 editVars, timer, inputVars>>

handleAddIncome(now, amount, account) ==
  /\ CanAppend
  /\ submitted' = submitted + 1
  /\ clock' = now
  /\ net' = net \cup
       {Request("incomes", token, <<NewIncome(now, amount, account)>>,
                incomes)}
  /\ UNCHANGED <<serverVars, sessionVars, fixedVars, ledgerVars, editVars,
                 timer, typed>>

handleAddIncomeDone(r) ==
  /\ r.kind = "incomes" /\ r.phase = "replied"
  /\ net' = net \ {r}
  /\ incomes' = <<r.body[1]>> \o r.cap
  /\ UNCHANGED <<serverVars, sessionVars, clock, fixedVars, expenses, places,
                 editVars, timer, inputVars>>

handleAddPlace(now) ==
  /\ CanAppend
  /\ submitted' = submitted + 1
  /\ clock' = now
  /\ net' = net \cup {Request("places", token, <<NewPlace(now)>>, places)}
  /\ UNCHANGED <<serverVars, sessionVars, fixedVars, ledgerVars, editVars,
                 timer, typed>>

\* slip: the handler copied from handleAddExpense keeps its setExpenses
handleAddPlaceDone_setExpenses(r) ==
  /\ r.kind = "places" /\ r.phase = "replied"
  /\ net' = net \ {r}
  /\ expenses' = <<r.body[1]>> \o r.cap
  /\ UNCHANGED <<serverVars, sessionVars, clock, fixedVars, incomes, places,
                 editVars, timer, inputVars>>

handleAddPlaceDone(r) ==
  /\ r.kind = "places" /\ r.phase = "replied"
  /\ net' = net \ {r}
  /\ places' = <<r.body[1]>> \o r.cap
  /\ UNCHANGED <<serverVars, sessionVars, clock, fixedVars, expenses, incomes,
                 editVars, timer, inputVars>>

\* a fetch rejects (the request or its response is lost): every handler's
\* catch logs or shows the error and changes none of the state modelled
FetchFails(r) ==
  /\ net' = net \ {r}
  /\ UNCHANGED <<serverVars, clientVars>>

Next ==
  \/ SplashTimer /\ PlannerIdle
  \/ \E mode \in {"register", "login"}, u \in Usernames : handleAuth(mode, u)
       /\ PlannerIdle
  \/ \E r \in net : handleAuthDone(r) /\ PlannerIdle
  \/ LogoutClick /\ PlannerIdle
  \/ \E r \in net : fetchDataDone(r) /\ PlannerIdle
  \/ ToggleEditTrip /\ PlannerIdle
  \/ ToggleEditSavings /\ PlannerIdle
  \/ \E f \in Fields, v \in ParamVals : FixedItemChange(f, v) /\ PlannerIdle
  \/ \E r \in net : saveFinancesDone(r) /\ PlannerIdle
  \/ \E now \in clock..MaxClock, a \in AmountVals, acc \in AccountType :
       handleAddExpense(now, a, acc) /\ PlannerIdle
  \/ \E r \in net : handleAddExpenseDone(r) /\ PlannerIdle
  \/ \E now \in clock..MaxClock, a \in AmountVals, acc \in AccountType :
       handleAddIncome(now, a, acc) /\ PlannerIdle
  \/ \E r \in net : handleAddIncomeDone(r) /\ PlannerIdle
  \/ \E now \in clock..MaxClock : handleAddPlace(now) /\ PlannerIdle
  \/ \E r \in net : handleAddPlaceDone(r) /\ PlannerIdle
  \/ \E r \in net : Register(r) /\ PlannerIdle
  \/ \E r \in net : Login(r) /\ PlannerIdle
  \/ \E r \in net : GetData(r) /\ PlannerIdle
  \/ \E r \in net : PostFinances(r) /\ PlannerIdle
  \/ \E r \in net : PostExpenses(r) /\ PlannerIdle
  \/ \E r \in net : PostIncomes(r) /\ PlannerIdle
  \/ \E r \in net : PostPlaces(r) /\ PlannerIdle
  \/ \E r \in net : FetchFails(r) /\ PlannerIdle

Spec == Init /\ [][Next]_vars

----------------------------------------------------------------------------
(* A returning user adds entries: the page loads with a stored token, the *)
(* user's finances row holds figures saved earlier, and every fetch gets   *)
(* its response.                                                           *)

\* the figures the first version of the app starts from
TripDefaults ==
  [totalBudget |-> 30000, platinumTicket |-> 22500, pendingPlatinum |-> 11500,
   flightTotal |-> 22500, myFlightShare |-> 11250, stay |-> 2000,
   expectedIncoming |-> 11250, baseSavings |-> 50000]

\* finances rows saved earlier: never set, or set to those figures
StoredFinances == {ZeroFinances, TripDefaults}

InitLedger ==
  /\ users = <<[username |-> 1, password |-> "pw"]>>
  /\ finances \in {<<row>> : row \in StoredFinances}
  /\ dbExpenses = <<>> /\ dbIncomes = <<>> /\ dbPlaces = <<>>
  /\ localToken = 1 /\ token = localToken /\ appState = "splash"
  /\ clock = 0
  /\ totalBudget = 0 /\ platinumTicket = 0 /\ pendingPlatinum = 0
  /\ flightTotal = 0 /\ myFlightShare = 0 /\ stay = 0
  /\ expectedIncoming = 0 /\ baseSavings = 0
  /\ expenses = <<>> /\ incomes = <<>> /\ places = <<>>
  /\ isEditingTrip = FALSE /\ isEditingSavings = FALSE
  /\ timer = [armed |-> TRUE, tok |-> token] /\ net = {} /\ typed = 0 /\ submitted = 0
  /\ PlannerMount

NextLedger ==
  \/ SplashTimer /\ PlannerIdle
  \/ \E r \in net : fetchDataDone(r) /\ PlannerIdle
  \/ \E now \in clock..MaxClock, a \in AmountVals, acc \in AccountType :
       handleAddExpense(now, a, acc) /\ PlannerIdle
  \/ \E r \in net : handleAddExpenseDone(r) /\ PlannerIdle
  \/ \E now \in clock..MaxClock, a \in AmountVals, acc \in AccountType :
       handleAddIncome(now, a, acc) /\ PlannerIdle
  \/ \E r \in net : handleAddIncomeDone(r) /\ PlannerIdle
  \/ \E now \in clock..MaxClock : handleAddPlace(now) /\ PlannerIdle
  \/ \E r \in net : handleAddPlaceDone(r) /\ PlannerIdle
  \/ \E r \in net : GetData(r) /\ PlannerIdle
  \/ \E r \in net : PostExpenses(r) /\ PlannerIdle
  \/ \E r \in net : PostIncomes(r) /\ PlannerIdle
  \/ \E r \in net : PostPlaces(r) /\ PlannerIdle

SpecLedger == InitLedger /\ [][NextLedger]_vars

----------------------------------------------------------------------------
(* Properties of the calculations, checked under SpecCalc *)

\* the sum of amount over the entries of list tagged to account, taken over
\* the set of their positions
RECURSIVE SumAt(_, _)
SumAt(list, S) ==
  IF S = {} THEN 0
  ELSE LET i == CHOOSE i \in S : TRUE
       IN  list[i].amount + SumAt(list, S \ {i})

AmountOn(list, account) ==
  SumAt(list, {i \in DOMAIN list : list[i].accountId = account})

HasEntry(list, account) == \E i \in DOMAIN list : list[i].accountId = account

\* every order of the entries of list
Reorderings(list) ==
  LET n == Len(list)
      perms == {p \in [1..n -> 1..n] : \A i, j \in 1..n : p[i] = p[j] => i = j}
  IN  {[i \in 1..n |-> list[p[i]]] : p \in perms}

\* C1: tripRemainingBalance = totalBudget - tripEffectiveSpent -
\* pendingPlatinum + tripTotalIncoming, where tripTotalIncoming =
\* expectedIncoming + the sum of amount over the incomes tagged trip.
C1_TripRemainingBalance ==
  /\ Shown.tripTotalIncoming = expectedIncoming + AmountOn(incomes, "trip")
  /\ Shown.tripRemainingBalance =
       totalBudget - Shown.tripEffectiveSpent - pendingPlatinum
         + (expectedIncoming + AmountOn(incomes, "trip"))

C1_Witness ==
  /\ HasEntry(incomes, "trip") /\ HasEntry(incomes, "savings")
  /\ Shown.tripTotalIncoming # expectedIncoming

\* C2: tripEffectiveSpent = platinumTicket - pendingPlatinum + myFlightShare
\* + stay + the sum of amount over exactly the expenses tagged trip (0 when
\* there are none).
C2_TripEffectiveSpent ==
  Shown.tripEffectiveSpent =
    platinumTicket - pendingPlatinum + myFlightShare + stay
      + AmountOn(expenses, "trip")

C2_Witness ==
  /\ HasEntry(expenses, "trip") /\ HasEntry(expenses, "savings")
  /\ AmountOn(expenses, "savings") # 0

\* C3: totalSavingsBalance = baseSavings + the sum of amount over the incomes
\* tagged savings - the sum of amount over the expenses tagged savings.
C3_TotalSavingsBalance ==
  Shown.totalSavingsBalance =
    baseSavings + AmountOn(incomes, "savings") - AmountOn(expenses, "savings")

C3_Witness ==
  /\ HasEntry(incomes, "savings") /\ HasEntry(expenses, "savings")

\* C4: safeDailySpend is never negative; it is max(0, tripRemainingBalance / 3),
\* so it is 0 whenever tripRemainingBalance <= 0, for negative fields and
\* negative amounts too.
C4_SafeDailySpendFloor ==
  LET s == Shown.safeDailySpend
      b == Shown.tripRemainingBalance
  IN  /\ s.den > 0 /\ s.num >= 0
      /\ b <= 0 => s.num = 0
      /\ b > 0 => 3 * s.num = b * s.den

C4_Witness ==
  /\ Shown.tripRemainingBalance < 0
  /\ totalBudget < 0
  /\ \E i \in DOMAIN incomes : incomes[i].amount < 0

LedgerEmpty == expenses = <<>> /\ incomes = <<>>

\* C5 as stated: with an empty ledger, tripRemainingBalance = totalBudget -
\* platinumTicket - myFlightShare - stay - pendingPlatinum + expectedIncoming.
C5_Original ==
  LedgerEmpty =>
    Shown.tripRemainingBalance =
      totalBudget - platinumTicket - myFlightShare - stay - pendingPlatinum
        + expectedIncoming

\* C5 amended: with an empty ledger, tripRemainingBalance = totalBudget -
\* platinumTicket - myFlightShare - stay + expectedIncoming; pendingPlatinum
\* cancels out.
C5_EmptyLedgerBalance ==
  LedgerEmpty =>
    Shown.tripRemainingBalance =
      totalBudget - platinumTicket - myFlightShare - stay + expectedIncoming

C5_Witness == LedgerEmpty /\ pendingPlatinum > 0 /\ platinumTicket > 0

\* the fixed figures with pendingPlatinum replaced by v
WithPending(v) == [fixed EXCEPT !.pendingPlatinum = v]

\* C6 as stated: with the other fields and the ledger fixed, a larger
\* pendingPlatinum gives a strictly smaller tripRemainingBalance.
C6_Original ==
  \A v \in ParamVals :
    v > pendingPlatinum =>
      tripRemainingBalance(WithPending(v), expenses, incomes)
        < Shown.tripRemainingBalance

\* C6 amended: with the other fields and the ledger fixed, a larger
\* pendingPlatinum lowers tripEffectiveSpent by the difference and leaves
\* tripRemainingBalance unchanged.
C6_PendingCancels ==
  \A v \in ParamVals :
    v > pendingPlatinum =>
      /\ tripEffectiveSpent(WithPending(v), expenses)
           = Shown.tripEffectiveSpent - (v - pendingPlatinum)
      /\ tripRemainingBalance(WithPending(v), expenses, incomes)
           = Shown.tripRemainingBalance

C6_Witness ==
  /\ \E v \in ParamVals : v > pendingPlatinum
  /\ HasEntry(expenses, "trip")

\* C10: the derived figures depend only on the fixed figures and on which
\* entries the ledger holds: every reordering of the same expenses and
\* incomes gives the same figures.
C10_OrderIndependent ==
  \A pe \in Reorderings(expenses), pi \in Reorderings(incomes) :
    Calculations(fixed, pe, pi) = Shown

C10_Witness ==
  /\ Len(expenses) = 2
  /\ expenses[1].accountId = "trip" /\ expenses[2].accountId = "trip"
  /\ expenses[1].amount # expenses[2].amount

----------------------------------------------------------------------------
(* Properties of appends, checked under SpecLedger *)

\* the list new is the list old with entries added in front
GainedInFront(old, new) ==
  /\ Len(new) > Len(old)
  /\ SubSeq(new, Len(new) - Len(old) + 1, Len(new)) = old

\* the positions of the entries added in front
Gained(old, new) == 1..(Len(new) - Len(old))

AllOn(list, S, account) == \A i \in S : list[i].accountId = account

\* the trip figures of user u computed from the rows the server holds,
\* before and after a step
PersistedSpent(u) ==
  tripEffectiveSpent(finances[u], SelectRows(dbExpenses, u))

PersistedSpentAfter(u) ==
  tripEffectiveSpent(finances'[u], SelectRows(dbExpenses', u))

PersistedBalance(u) ==
  tripRemainingBalance(finances[u], SelectRows(dbExpenses, u),
                       SelectRows(dbIncomes, u))

PersistedBalanceAfter(u) ==
  tripRemainingBalance(finances'[u], SelectRows(dbExpenses', u),
                       SelectRows(dbIncomes', u))

\* a step in which only trip expenses are added in front of the client's
\* expenses, the fixed figures and the incomes staying as they are
TripExpensesAdded ==
  /\ fixed' = fixed /\ incomes' = incomes
  /\ GainedInFront(expenses, expenses')
  /\ AllOn(expenses', Gained(expenses, expenses'), "trip")

\* a step in which the server inserts one expense row tagged trip
TripExpenseInserted ==
  /\ finances' = finances /\ dbIncomes' = dbIncomes
  /\ Len(dbExpenses') = Len(dbExpenses) + 1
  /\ SubSeq(dbExpenses', 1, Len(dbExpenses)) = dbExpenses
  /\ dbExpenses'[Len(dbExpenses')].accountId = "trip"

EntriesAdded(account) ==
  /\ fixed' = fixed
  /\ \/ /\ GainedInFront(expenses, expenses') /\ incomes' = incomes
        /\ AllOn(expenses', Gained(expenses, expenses'), account)
     \/ /\ GainedInFront(incomes, incomes') /\ expenses' = expenses
        /\ AllOn(incomes', Gained(incomes, incomes'), account)

Ends(kind, phase) ==
  \E r \in net : r.kind = kind /\ r.phase = phase /\ r \notin net'

\* C9: appending a place changes no derived figure and neither the expense
\* nor the income list, in the client and in the server.
C9_PlacesApart ==
  [][/\ Ends("places", "replied") =>
          /\ expenses' = expenses /\ incomes' = incomes
          /\ fixed' = fixed
          /\ Shown' = Shown
     /\ Ends("places", "sent") =>
          /\ dbExpenses' = dbExpenses /\ dbIncomes' = dbIncomes
          /\ finances' = finances
    ]_vars

\* a place has been appended beside an expense and an income
C9_Witness ==
  /\ places # <<>> /\ dbPlaces # <<>>
  /\ expenses # <<>>
  /\ Shown.tripEffectiveSpent # 0

----------------------------------------------------------------------------
(* The routes called directly: any holder of a token can send any body to   *)
(* the /api routes (app.use(cors()), express.json()); callers send one      *)
(* request after the other, to a database that holds some accounts already. *)

\* the clock readings callers derive identifiers from: "9" and "10"
ApiClock == {9, 10}

\* the bodies sent to POST /api/finances
ApiFinances == {TripDefaults} \cup {[f \in Fields |-> v] : v \in ParamVals}

ApiAccount(username) == [username |-> username, password |-> "pw"]

\* the requests of callers that hold a token the server issued to them
ApiCalls(tokens) ==
  {Request("data", t, <<>>, <<>>) : t \in tokens}
    \cup {Request("finances", t, <<f>>, <<>>) :
             t \in tokens, f \in ApiFinances}
    \cup {Request("expenses", t, <<NewExpense(now, a, "trip")>>, <<>>) :
             t \in tokens, now \in ApiClock, a \in AmountVals}
    \cup {Request("incomes", t, <<NewIncome(now, a, "trip")>>, <<>>) :
             t \in tokens, now \in ApiClock, a \in AmountVals}
    \cup {Request("places", t, <<NewPlace(now)>>, <<>>) :
             t \in tokens, now \in ApiClock}

ApiRequests ==
  {Request("register", Null, <<ApiAccount(u)>>, <<>>) : u \in Usernames}
    \cup ApiCalls(DOMAIN users)

\* a caller sends a request
ApiCall(r) ==
  /\ net = {}
  /\ submitted < MaxCalls
  /\ submitted' = submitted + 1
  /\ net' = {r}
  /\ UNCHANGED <<serverVars, sessionVars, clock, fixedVars, ledgerVars,
                 editVars, timer, typed>>

\* the caller receives the response
ApiResponse(r) ==
  /\ r.phase = "replied"
  /\ net' = net \ {r}
  /\ UNCHANGED <<serverVars, clientVars>>

InitApi ==
  /\ \E k \in 0..MaxUsers :
       /\ users = [i \in 1..k |-> ApiAccount(i)]
       /\ finances = [i \in 1..k |-> ZeroFinances]
  /\ dbExpenses = <<>> /\ dbIncomes = <<>> /\ dbPlaces = <<>>
  /\ localToken = Null /\ token = localToken /\ appState = "splash"
  /\ clock = 0
  /\ totalBudget = 0 /\ platinumTicket = 0 /\ pendingPlatinum = 0
  /\ flightTotal = 0 /\ myFlightShare = 0 /\ stay = 0
  /\ expectedIncoming = 0 /\ baseSavings = 0
  /\ expenses = <<>> /\ incomes = <<>> /\ places = <<>>
  /\ isEditingTrip = FALSE /\ isEditingSavings = FALSE
  /\ timer = [armed |-> FALSE, tok |-> token] /\ net = {} /\ typed = 0
  /\ submitted = 0
  /\ PlannerMount

NextApi ==
  \/ \E r \in ApiRequests : ApiCall(r) /\ PlannerIdle
  \/ \E r \in net : ApiResponse(r) /\ PlannerIdle
  \/ \E r \in net : Register(r) /\ PlannerIdle
  \/ \E r \in net : GetData(r) /\ PlannerIdle
  \/ \E r \in net : PostFinances(r) /\ PlannerIdle
  \/ \E r \in net : PostExpenses(r) /\ PlannerIdle
  \/ \E r \in net : PostIncomes(r) /\ PlannerIdle
  \/ \E r \in net : PostPlaces(r) /\ PlannerIdle

SpecApi == InitApi /\ [][NextApi]_vars

----------------------------------------------------------------------------
(* The division of safeDailySpend *)

\* C11: safeDailySpend is computed with exact, non-truncating division:
\* whenever tripRemainingBalance >= 0, 3 * safeDailySpend equals
\* tripRemainingBalance exactly, also when the balance is not a multiple of 3.
C11_ExactDivision ==
  Shown.tripRemainingBalance >= 0 =>
    TripDays * Shown.safeDailySpend.num
      = Shown.tripRemainingBalance * Shown.safeDailySpend.den

\* a positive balance that is not a multiple of 3, after an entry was added
C11_Witness ==
  /\ Shown.tripRemainingBalance > 0
  /\ Shown.tripRemainingBalance % TripDays # 0
  /\ Shown.safeDailySpend.den = TripDays
  /\ expenses # <<>>

----------------------------------------------------------------------------
(* Duplicate identifiers (SpecApi) *)

AppendKinds == {"expenses", "incomes", "places"}

TableOf(kind) ==
  CASE kind = "expenses" -> dbExpenses
    [] kind = "incomes" -> dbIncomes
    [] kind = "places" -> dbPlaces

TableOfAfter(kind) ==
  CASE kind = "expenses" -> dbExpenses'
    [] kind = "incomes" -> dbIncomes'
    [] kind = "places" -> dbPlaces'

\* the step is the server handling request r
Served(r) == r \in net /\ r.phase = "sent" /\ r \notin net'

\* the response to r that the step puts on the wire
ReplyTo(r) ==
  CHOOSE q \in net' : q.phase = "replied" /\ q.kind = r.kind /\ q.tok = r.tok
                         /\ q.body = r.body

\* owner holds a row with this id in the table
HasIdOf(table, id, owner) ==
  \E i \in DOMAIN table : table[i].id = id /\ table[i].user_id = owner

C13_DuplicateRejected ==
  [][\A r \in net :
       (/\ Served(r) /\ r.kind \in AppendKinds
        /\ HasId(TableOf(r.kind), r.body[1].id))
       => /\ serverVars' = serverVars
          /\ ReplyTo(r).status >= 400
    ]_vars

\* an expense has been refused whose id is held by an expense with another
\* amount
C13_Witness ==
  \E q \in net :
    /\ q.phase = "replied" /\ q.kind = "expenses" /\ q.status = 500
    /\ \E i \in DOMAIN dbExpenses :
         /\ dbExpenses[i].id = q.body[1].id
         /\ dbExpenses[i].user_id = q.tok
         /\ dbExpenses[i].amount # q.body[1].amount

\* C14: entry identifiers are scoped per owner: an append by owner B with an
\* identifier that no entry of B of that kind uses succeeds, whether or not
\* another owner has an entry with that identifier.
C14_OwnerScopedIds ==
  [][\A r \in net :
       (/\ Served(r) /\ r.kind \in AppendKinds
        /\ ~HasIdOf(TableOf(r.kind), r.body[1].id, r.tok))
       => /\ ReplyTo(r).status = 200
          /\ HasIdOf(TableOfAfter(r.kind), r.body[1].id, r.tok)
    ]_vars

----------------------------------------------------------------------------
(* What an owner reads (SpecApi) *)

Range(list) == {list[i] : i \in DOMAIN list}

Reverse(list) == [i \in 1..Len(list) |-> list[Len(list) + 1 - i]]

\* the rows of an owner in the order of their insertion
RowsOf(table, owner) == SelectSeq(table, LAMBDA row : row.user_id = owner)

\* the list of one kind GET /api/data gives an owner, before and after a step
ListOf(kind, owner) == SelectRows(TableOf(kind), owner)

ListOfAfter(kind, owner) == SelectRows(TableOfAfter(kind), owner)

\* all that GET /api/data gives an owner, before and after a step
DataOf(owner) ==
  [finances |-> finances[owner],
   expenses |-> ListOf("expenses", owner),
   incomes |-> ListOf("incomes", owner),
   places |-> ListOf("places", owner)]

DataOfAfter(owner) ==
  [finances |-> finances'[owner],
   expenses |-> ListOfAfter("expenses", owner),
   incomes |-> ListOfAfter("incomes", owner),
   places |-> ListOfAfter("places", owner)]

\* C15: after any sequence of registrations, sets and appends by any owners,
\* the data read for owner O contains exactly the entries appended by O and
\* the finances last set by O, and nothing of another owner: a request
\* changes only what its sender reads, an accepted append adds exactly the
\* appended entry, a set puts its body in place, a new owner starts empty,
\* and a read returns rows of its sender only.
C15_OwnerIsolation ==
  [][\A r \in net :
       Served(r) =>
         /\ \A o \in DOMAIN users : o # r.tok => DataOfAfter(o) = DataOf(o)
         /\ r.kind = "data" =>
               /\ ReplyTo(r).reply[1] = DataOf(r.tok)
               /\ \A k \in AppendKinds :
                    Range(ReplyTo(r).reply[1][k])
                      = {row \in Range(TableOf(k)) : row.user_id = r.tok}
         /\ r.kind \in AppendKinds =>
               /\ finances'[r.tok] = finances[r.tok]
               /\ \A k \in AppendKinds \ {r.kind} :
                    ListOfAfter(k, r.tok) = ListOf(k, r.tok)
               /\ Range(ListOfAfter(r.kind, r.tok))
                    = Range(ListOf(r.kind, r.tok))
                        \cup (IF ReplyTo(r).status = 200
                              THEN {Row(r.body[1], r.tok)} ELSE {})
         /\ r.kind = "finances" =>
               DataOfAfter(r.tok) = [DataOf(r.tok) EXCEPT !.finances = r.body[1]]
         /\ (r.kind = "register" /\ ReplyTo(r).status = 200) =>
               /\ Len(users') = Len(users) + 1
               /\ \A k \in AppendKinds : ListOfAfter(k, Len(users')) = <<>>
    ]_vars

\* an owner reads their expense while another owner has one too
C15_Witness ==
  \E q \in net :
    /\ q.phase = "replied" /\ q.kind = "data" /\ q.status = 200
    /\ q.reply[1].expenses # <<>>
    /\ \E i \in DOMAIN dbExpenses : dbExpenses[i].user_id # q.tok

\* C16: the lists of expenses, incomes and places an owner reads hold all
\* the owner's entries most-recently-appended first, the exact reverse of
\* the order of their appends, for any identifiers the callers supply.
C16_NewestFirst ==
  \A o \in DOMAIN users, k \in AppendKinds :
    ListOf(k, o) = Reverse(RowsOf(TableOf(k), o))

\* C17: the ledger is append-only: an entry that was appended is in every
\* later list of its owner with the same field values, whatever appends,
\* sets and reads follow.
C17_AppendOnly ==
  [][\A o \in DOMAIN users, k \in AppendKinds :
       /\ Range(ListOf(k, o)) \subseteq Range(ListOfAfter(k, o))
       /\ Range(RowsOf(TableOf(k), o)) \subseteq Range(ListOf(k, o))
    ]_vars

\* an owner reads the two expenses they appended
C17_Witness ==
  \E q \in net :
    /\ q.phase = "replied" /\ q.kind = "data" /\ q.status = 200
    /\ Len(q.reply[1].expenses) = 2
    /\ Range(q.reply[1].expenses) = Range(dbExpenses)

----------------------------------------------------------------------------
(* The finances row (SpecApi) *)

AllZero(f) == \A k \in Fields : f[k] = 0

\* the step changes the finances row of owner o
FinancesChanged(o) == finances'[o] # finances[o]

\* C18: for an owner whose finances were never set, the read returns all 8
\* fields equal to 0: a row of zeros exists from the owner's registration on
\* and only a set by that owner changes it; with an empty ledger every
\* derived figure is then 0.
C18_ZeroedDefaults ==
  [][/\ \A r \in net :
          Served(r) =>
            /\ (r.kind = "register" /\ ReplyTo(r).status = 200) =>
                  /\ ReplyTo(r).reply[1].token = Len(users')
                  /\ DOMAIN finances' = DOMAIN users'
                  /\ AllZero(finances'[Len(users')])
            /\ (r.kind = "data" /\ AllZero(finances[r.tok])) =>
                  LET d == ReplyTo(r).reply[1]
                  IN  /\ AllZero(d.finances)
                      /\ (d.expenses = <<>> /\ d.incomes = <<>>) =>
                            Calculations(d.finances, d.expenses, d.incomes)
                              = [tripEffectiveSpent |-> 0,
                                 tripTotalIncoming |-> 0,
                                 tripRemainingBalance |-> 0,
                                 safeDailySpend |-> Num(0),
                                 totalSavingsBalance |-> 0]
     /\ \A o \in DOMAIN users :
          FinancesChanged(o) =>
            \E r \in net : Served(r) /\ r.kind = "finances" /\ r.tok = o
    ]_vars

\* an owner who set nothing and appended nothing reads zeros while the other
\* owner has set figures
C18_Witness ==
  \E q \in net :
    /\ q.phase = "replied" /\ q.kind = "data" /\ q.status = 200
    /\ AllZero(q.reply[1].finances)
    /\ q.reply[1].expenses = <<>> /\ q.reply[1].incomes = <<>>
    /\ \E o \in DOMAIN users : o # q.tok /\ ~AllZero(finances[o])

\* C19: a set replaces all 8 fields at once: after it the owner's row is
\* the body sent, whatever integers it holds, and stays so until the next
\* set by that owner; a read returns the row; no row with only some of the
\* fields replaced is ever seen.
C19_FullReplace ==
  [][/\ \A r \in net :
          Served(r) =>
            /\ r.kind = "finances" =>
                  \A k \in Fields : finances'[r.tok][k] = r.body[1][k]
            /\ r.kind = "data" =>
                  ReplyTo(r).reply[1].finances = finances[r.tok]
     /\ \A o \in DOMAIN users :
          \/ ~FinancesChanged(o)
          \/ \E r \in net : /\ Served(r) /\ r.kind = "finances" /\ r.tok = o
                             /\ finances'[o] = r.body[1]
    ]_vars

\* an owner reads the negative figures they set
C19_Witness ==
  \E q \in net :
    /\ q.phase = "replied" /\ q.kind = "data" /\ q.status = 200
    /\ \A k \in Fields : q.reply[1].finances[k] = -1

----------------------------------------------------------------------------
(* Appends and sets (SpecApi) *)

\* what the server holds of finances and ledger, before and after a step
Persisted ==
  [finances |-> finances, expenses |-> dbExpenses, incomes |-> dbIncomes,
   places |-> dbPlaces]

PersistedAfter ==
  [finances |-> finances', expenses |-> dbExpenses', incomes |-> dbIncomes',
   places |-> dbPlaces']

\* the append r and the set r as functions of what the server holds
AfterAppend(db, r) == [db EXCEPT ![r.kind] = Insert(db[r.kind], r)]

AfterSet(db, r) ==
  IF authenticate(r.tok)
  THEN [db EXCEPT !.finances = [db.finances EXCEPT ![r.tok] = r.body[1]]]
  ELSE db

ApiAppends == {q \in ApiRequests : q.kind \in AppendKinds}

ApiSets == {q \in ApiRequests : q.kind = "finances"}

\* C20: appends and sets are independent: an append leaves the finances
\* rows as they are, a set leaves the ledger as it is, and an append and a
\* set performed in either order leave the same persisted state.
C20_AppendSetCommute ==
  [][\A r \in net :
       Served(r) =>
         /\ r.kind \in AppendKinds =>
               /\ finances' = finances
               /\ PersistedAfter = AfterAppend(Persisted, r)
               /\ \A b \in ApiSets :
                    AfterSet(PersistedAfter, b)
                      = AfterAppend(AfterSet(Persisted, b), r)
         /\ r.kind = "finances" =>
               /\ <<dbExpenses', dbIncomes', dbPlaces'>>
                    = <<dbExpenses, dbIncomes, dbPlaces>>
               /\ PersistedAfter = AfterSet(Persisted, r)
               /\ \A a \in ApiAppends :
                    AfterAppend(PersistedAfter, a)
                      = AfterSet(AfterAppend(Persisted, a), r)
    ]_vars

\* an owner has appended an income and set their figures
C20_Witness ==
  \E o \in DOMAIN users :
    /\ finances[o] = TripDefaults
    /\ RowsOf(dbIncomes, o) # <<>>
    /\ net = {}

----------------------------------------------------------------------------
(* flightTotal (SpecCalc) *)

\* the fixed figures with another flightTotal
WithFlightTotal(v) == [fixed EXCEPT !.flightTotal = v]

\* C29: flightTotal has no effect on any derived figure: fixed figures that
\* differ only in flightTotal give the same tripEffectiveSpent,
\* tripTotalIncoming, tripRemainingBalance, safeDailySpend and
\* totalSavingsBalance for every ledger.
C29_FlightTotalUnused ==
  \A v \in ParamVals \cup {0, TripDefaults.flightTotal} :
    Calculations(WithFlightTotal(v), expenses, incomes) = Shown

\* a flight total that differs from the share, with entries in the ledger
C29_Witness ==
  /\ flightTotal # myFlightShare
  /\ expenses # <<>> /\ incomes # <<>>
  /\ Shown.safeDailySpend # Num(0)

----------------------------------------------------------------------------
(* Planner tab (SpecPlanner): the three allocation sliders *)

\* <input type="range" min="0" max="100">
SliderMin == 0
SliderMax == 100

\* the slider positions tried
SliderVals == {p \in SliderMin..SliderMax : p % 20 = 0}

\* const bufferPct = 100 - foodPct - alcoholPct - transportPct
bufferPct == 100 - foodPct - alcoholPct - transportPct

\* (safeDailySpend * pct) / 100
AllocationAmount(pct) ==
  Divide(Shown.safeDailySpend.num * pct, Shown.safeDailySpend.den * 100)

\* onChange={(e) => setPct(Number(e.target.value))}: one slider is moved,
\* the other two stay where they are
setFoodPct(v) ==
  /\ foodPct' = v
  /\ UNCHANGED <<alcoholPct, transportPct>>
  /\ UNCHANGED <<serverVars, sessionVars, clock, fixedVars, ledgerVars,
                 editVars, asyncVars, inputVars>>

setAlcoholPct(v) ==
  /\ alcoholPct' = v
  /\ UNCHANGED <<foodPct, transportPct>>
  /\ UNCHANGED <<serverVars, sessionVars, clock, fixedVars, ledgerVars,
                 editVars, asyncVars, inputVars>>

setTransportPct(v) ==
  /\ transportPct' = v
  /\ UNCHANGED <<foodPct, alcoholPct>>
  /\ UNCHANGED <<serverVars, sessionVars, clock, fixedVars, ledgerVars,
                 editVars, asyncVars, inputVars>>

\* the planner tab opened over any figures the app can hold
InitPlanner == InitCalc

NextPlanner ==
  \/ \E v \in SliderVals : setFoodPct(v)
  \/ \E v \in SliderVals : setAlcoholPct(v)
  \/ \E v \in SliderVals : setTransportPct(v)

SpecPlanner == InitPlanner /\ [][NextPlanner]_vars

\* C30: the planner's buffer percentage 100 - food - alcohol - transport is
\* never negative after any slider changes (each slider in 0..100), so no
\* allocation amount shown is negative.
C30_BufferNeverNegative ==
  /\ bufferPct >= 0
  /\ \A pct \in {foodPct, alcoholPct, transportPct, bufferPct} :
       AllocationAmount(pct).num >= 0

----------------------------------------------------------------------------
(* The in-memory ledger against the persisted one (SpecLedger) *)

\* the step is the app taking up the response to its append r
AppendDone(r) ==
  /\ r \in net /\ r.kind \in {"expenses", "incomes"}
  /\ r.phase = "replied" /\ r \notin net'

\* every entry of the list is still in the list after the step
Kept(list, listAfter) ==
  \A e \in Range(list) : \E e2 \in Range(listAfter) : e2.id = e.id

\* C21: no append is lost to a read-modify-write race: when two appends of
\* the same owner overlap, both entries end up in the client's in-memory
\* list, so the completion of an accepted append never removes an entry the
\* list already holds.
C21_NoLostAppend ==
  [][\A r \in net :
       AppendDone(r) /\ r.status = 200
         => Kept(expenses, expenses') /\ Kept(incomes, incomes')
    ]_vars

\* the table holds the entry, field for field, as a row of the owner
PersistedFor(table, e, owner) ==
  \E i \in DOMAIN table :
    /\ table[i].user_id = owner
    /\ \A k \in DOMAIN e : table[i][k] = e[k]

\* C26: every entry in the client's in-memory ledger is persisted for the
\* owner who is logged in; an append the server rejects (duplicate id, 401,
\* server error) adds nothing to the client's ledger.
C26_LedgerIsPersisted ==
  appState = "main" =>
    /\ \A e \in Range(expenses) : PersistedFor(dbExpenses, e, token)
    /\ \A e \in Range(incomes) : PersistedFor(dbIncomes, e, token)

----------------------------------------------------------------------------
(* The routes called with and without a token (SpecAuth) *)

\* the calls of SpecApi, and every data operation with an Authorization
\* header that does not verify
AuthRequests == ApiRequests \cup ApiCalls({Null})

NextAuth ==
  \/ \E r \in AuthRequests : ApiCall(r) /\ PlannerIdle
  \/ \E r \in net : ApiResponse(r) /\ PlannerIdle
  \/ \E r \in net : Register(r) /\ PlannerIdle
  \/ \E r \in net : GetData(r) /\ PlannerIdle
  \/ \E r \in net : PostFinances(r) /\ PlannerIdle
  \/ \E r \in net : PostExpenses(r) /\ PlannerIdle
  \/ \E r \in net : PostIncomes(r) /\ PlannerIdle
  \/ \E r \in net : PostPlaces(r) /\ PlannerIdle

SpecAuth == InitApi /\ [][NextAuth]_vars

\* read data, set finances, append expense, income or place
DataOperations == {"data", "finances"} \cup AppendKinds

\* the rows the step adds to the table of a kind
RowsAdded(kind) == Range(TableOfAfter(kind)) \ Range(TableOf(kind))

\* C23: every data operation acts only with an authenticated owner
\* identifier: a request with a missing or invalid token is answered 401
\* and changes no persisted state; a request with a valid token is not
\* answered 401, reads the finances and rows of the owner in the token and
\* no others, writes only rows carrying that owner's id and leaves the
\* users and every other owner's finances and rows as they are.
C23_AuthenticatedOwnerOnly ==
  [][\A r \in net :
       Served(r) /\ r.kind \in DataOperations =>
         IF ~authenticate(r.tok)
         THEN /\ ReplyTo(r).status = 401
              /\ ReplyTo(r).reply = <<>>
              /\ UNCHANGED serverVars
         ELSE /\ r.tok \in DOMAIN users
              /\ ReplyTo(r).status # 401
              /\ users' = users
              /\ \A kind \in AppendKinds :
                   /\ \A row \in RowsAdded(kind) : row.user_id = r.tok
                   /\ kind # r.kind => TableOfAfter(kind) = TableOf(kind)
              /\ \A o \in DOMAIN users \ {r.tok} : finances'[o] = finances[o]
              /\ r.kind # "finances" => finances' = finances
              /\ r.kind = "data" =>
                   /\ ReplyTo(r).reply[1].finances = finances[r.tok]
                   /\ \A kind \in AppendKinds :
                        \A row \in Range(ReplyTo(r).reply[1][kind]) :
                          row.user_id = r.tok
    ]_vars

\* a call without a token was answered 401 while an owner has stored rows
\* and finances
C23_Witness ==
  /\ \E r \in net : r.phase = "replied" /\ r.tok = Null /\ r.status = 401
                      /\ r.kind = "expenses"
  /\ dbExpenses # <<>>
  /\ \E o \in DOMAIN users : finances[o] # ZeroFinances

----------------------------------------------------------------------------
(* The accounts of stored entries (SpecStore) *)

\* accountId TEXT: the routes store the accountId of the body as it comes,
\* one of the two accounts of the app or any other text
StoredAccountIds == AccountType \cup {"cash"}

StoreRequests ==
  {Request("expenses", t, <<NewExpense(now, a, acc)>>, <<>>) :
      t \in DOMAIN users, now \in ApiClock, a \in AmountVals,
      acc \in StoredAccountIds}
    \cup {Request("incomes", t, <<NewIncome(now, a, acc)>>, <<>>) :
            t \in DOMAIN users, now \in ApiClock, a \in AmountVals,
            acc \in StoredAccountIds}
    \cup {Request("data", t, <<>>, <<>>) : t \in DOMAIN users}

NextStore ==
  \/ \E r \in StoreRequests : ApiCall(r) /\ PlannerIdle
  \/ \E r \in net : ApiResponse(r) /\ PlannerIdle
  \/ \E r \in net : GetData(r) /\ PlannerIdle
  \/ \E r \in net : PostExpenses(r) /\ PlannerIdle
  \/ \E r \in net : PostIncomes(r) /\ PlannerIdle

SpecStore == InitApi /\ [][NextStore]_vars

\* C27: every persisted expense and income is counted in exactly one
\* account: for every ledger the server can hold, tripDynamicSpent +
\* savingsDynamicSpent is the sum of all the owner's expense amounts and
\* tripDynamicIncome + savingsDynamicIncome the sum of all the owner's
\* income amounts.
C27_CountedInOneAccount ==
  \A o \in DOMAIN users :
    LET exps == ListOf("expenses", o)
        incs == ListOf("incomes", o)
    IN  /\ tripDynamicSpent(exps) + savingsDynamicSpent(exps)
             = reduceAmount(exps, 0)
        /\ tripDynamicIncome(incs) + savingsDynamicIncome(incs)
             = reduceAmount(incs, 0)

----------------------------------------------------------------------------
(* One browser used by several owners (SpecSession) *)

\* the first owner is registered, has stored figures and an expense, and
\* left their token in localStorage; the app starts
InitSession ==
  /\ users = <<ApiAccount(1)>>
  /\ finances \in {<<row>> : row \in StoredFinances}
  /\ \E a \in AmountVals, acc \in AccountType :
       dbExpenses = <<Row(NewExpense(0, a, acc), 1)>>
  /\ dbIncomes = <<>> /\ dbPlaces = <<>>
  /\ localToken = 1 /\ token = localToken /\ appState = "splash"
  /\ clock = 0
  /\ totalBudget = 0 /\ platinumTicket = 0 /\ pendingPlatinum = 0
  /\ flightTotal = 0 /\ myFlightShare = 0 /\ stay = 0
  /\ expectedIncoming = 0 /\ baseSavings = 0
  /\ expenses = <<>> /\ incomes = <<>> /\ places = <<>>
  /\ isEditingTrip = FALSE /\ isEditingSavings = FALSE
  /\ timer = [armed |-> TRUE, tok |-> token] /\ net = {} /\ typed = 0
  /\ submitted = 0
  /\ PlannerMount

NextSession ==
  \/ SplashTimer /\ PlannerIdle
  \/ \E mode \in {"register", "login"}, u \in Usernames : handleAuth(mode, u)
       /\ PlannerIdle
  \/ \E r \in net : handleAuthDone(r) /\ PlannerIdle
  \/ LogoutClick /\ PlannerIdle
  \/ \E r \in net : fetchDataDone(r) /\ PlannerIdle
  \/ \E r \in net : Register(r) /\ PlannerIdle
  \/ \E r \in net : Login(r) /\ PlannerIdle
  \/ \E r \in net : GetData(r) /\ PlannerIdle
  \/ \E r \in net : FetchFails(r) /\ PlannerIdle

SpecSession == InitSession /\ [][NextSession]_vars

\* the entries the app holds in memory
InMemory == Range(expenses) \cup Range(incomes) \cup Range(places)

\* C22: no cross-owner visibility on a shared client: after owner A logs
\* out and owner B logs in, the client in main state never shows or sums a
\* FixedParameters value or ledger entry of A, also before B's data load
\* has completed or when it fails: what the app of a logged-in owner holds
\* is that owner's stored figures or the defaults, and rows of that owner.
C22_NoCrossOwnerView ==
  appState = "main" /\ token # Null =>
    /\ fixed \in {ZeroFinances, finances[token]}
    /\ \A e \in InMemory : "user_id" \in DOMAIN e => e.user_id = token

\* C24: after a successful login or registration the client keeps the
\* issued token and stays in main until the user logs out: the response to
\* a data request that the client sent without that token never takes the
\* token away or returns the client to the auth state.
C24_SessionKept ==
  [][\A r \in net :
       /\ r.kind = "data" /\ r.phase = "replied" /\ r \notin net'
       /\ token # Null /\ r.tok # token
       => token' = token /\ appState' = appState
    ]_vars

----------------------------------------------------------------------------
(* Editing and saving the fixed figures (SpecSave) *)

\* a returning owner with stored figures opens the app
InitSave == InitLedger

NextSave ==
  \/ SplashTimer /\ PlannerIdle
  \/ \E r \in net : fetchDataDone(r) /\ PlannerIdle
  \/ ToggleEditTrip /\ PlannerIdle
  \/ ToggleEditSavings /\ PlannerIdle
  \/ \E f \in Fields, v \in ParamVals : FixedItemChange(f, v) /\ PlannerIdle
  \/ \E r \in net : saveFinancesDone(r) /\ PlannerIdle
  \/ \E r \in net : GetData(r) /\ PlannerIdle
  \/ \E r \in net : PostFinances(r) /\ PlannerIdle

SpecSave == InitSave /\ [][NextSave]_vars

\* C25: the persisted FixedParameters of an owner are only replaced by
\* values the client loaded for that owner or that the user typed in; a
\* save triggered by closing edit mode before the initial load has
\* completed never overwrites the stored values with the zero defaults: as
\* long as nothing has been typed, a save leaves the stored figures as they
\* are.
C25_SaveKeepsStored ==
  [][\A r \in net :
       Served(r) /\ r.kind = "finances" /\ typed = 0 => finances' = finances
    ]_vars

\* C28: after the user has finished editing in main state (both edit
\* toggles off), the server-stored FixedParameters eventually equal the 8
\* values shown: once every request has been answered and taken up, with
\* no timer pending, nothing more happens until the user acts again, so by
\* then the stored figures are the shown ones.
C28_SavedEqualsShown ==
  /\ appState = "main" /\ ~isEditingTrip /\ ~isEditingSavings
  /\ net = {} /\ ~timer.armed
  => finances[token] = fixed

====
